---- MODULE Spec2Model ----
(***************************************************************************)
(* Model of scripts/Meander Migration.js: the migration-rate estimator     *)
(* (calculateMigrationRate and its inner flattenCoords), the centerline    *)
(* extraction (extractCenterline) and the pipeline driver (main).          *)
(*                                                                         *)
(* JavaScript values are modelled explicitly: a number is a reduced        *)
(* fraction or one of NaN, Infinity, -Infinity; `undefined` and arrays are *)
(* values of their own, so that indexing a number (5)[0] gives undefined   *)
(* and arithmetic on undefined gives NaN, as the language defines.         *)
(* Floating-point rounding and the sign of zero are abstracted: finite     *)
(* numbers are exact rationals.                                            *)
(***************************************************************************)
EXTENDS Integers, Sequences, FiniteSets, TLC

VARIABLES
    \* ---- calculateMigrationRate (one call) ----
    pc,              \* position in the call
    centerline1,     \* argument: the earlier centerline (a geometry)
    centerline2,     \* argument: the later centerline
    timeInterval,    \* argument: years between the two
    coords1,         \* coords1 after flattenCoords
    coords2,         \* coords2 after flattenCoords
    distances,       \* the per-point minimum distances
    outcome,         \* "pending" | "returned" | "threw"
    result,          \* the value returned
    console,         \* lines written by console.log
    \* ---- main ----
    mpc,             \* position in main
    start_year, end_year, time_interval,   \* the configuration (lines 4-6)
    year,            \* loop variable of the years loop
    years,           \* the list of years to analyze
    centerlines,     \* one centerline per year
    migrationRates,  \* one rate per consecutive pair
    migrationRateData, \* the rows exported as CSV
    \* ---- extractCenterline ----
    spc,             \* position in extractCenterline
    image,           \* the binary input image
    opened,          \* after erode then dilate
    distance,        \* the distance transform
    centerline       \* the skeleton mask (selfMask'ed comparison)

estVars  == <<pc, centerline1, centerline2, timeInterval, coords1, coords2,
              distances, outcome, result, console>>
mainVars == <<mpc, start_year, end_year, time_interval, year, years,
              centerlines, migrationRates, migrationRateData>>
skelVars == <<spc, image, opened, distance, centerline>>
vars     == <<estVars, mainVars, skelVars>>

(***************************************************************************)
(* Bounds of the model.                                                    *)
(***************************************************************************)
MaxPts   == 2     \* points per LineString
MaxLines == 2     \* lines per MultiLineString
MaxYear  == 3     \* start_year and end_year range over 0..MaxYear
MaxInterval == 2  \* time_interval ranges over 0..MaxInterval
Width    == 5     \* columns of the raster
Height   == 2     \* rows of the raster

(***************************************************************************)
(* JavaScript values.                                                      *)
(***************************************************************************)
RECURSIVE GCD(_, _)
GCD(a, b) == IF b = 0 THEN a ELSE GCD(b, a % b)

Abs(x) == IF x < 0 THEN -x ELSE x

\* The finite number n/d, reduced, with the sign in the numerator.
Frac(n, d) ==
    LET s == IF d < 0 THEN -1 ELSE 1
        g == GCD(Abs(n), Abs(d))
    IN  [t |-> "num", n |-> (s * n) \div g, d |-> Abs(d) \div g]

Num(n)      == [t |-> "num", n |-> n, d |-> 1]
NaN         == [t |-> "NaN"]
Infinity    == [t |-> "Infinity"]
NegInfinity == [t |-> "-Infinity"]
Undefined   == [t |-> "undefined"]
Arr(s)      == [t |-> "arr", elems |-> s]

IsArray(v)  == v.t = "arr"
IsFin(v)    == v.t = "num"

\* arr[i] with a 0-based index: undefined when arr is not an array (a number
\* has no indexed properties) or the index is out of range.
Index(v, i) ==
    IF IsArray(v) /\ i >= 0 /\ i < Len(v.elems) THEN v.elems[i + 1] ELSE Undefined

\* ToNumber as the arithmetic operators apply it: undefined is NaN, the
\* empty array is 0 (""), a one-element array is its element, a longer one
\* is NaN ("a,b").
RECURSIVE ToNumber(_)
ToNumber(v) ==
    CASE v.t = "undefined" -> NaN
      [] v.t = "arr" -> IF Len(v.elems) = 0 THEN Num(0)
                        ELSE IF Len(v.elems) = 1 THEN ToNumber(v.elems[1])
                        ELSE NaN
      [] OTHER -> v

Sign(v) ==
    CASE v.t = "Infinity" -> 1
      [] v.t = "-Infinity" -> -1
      [] v.t = "num" -> IF v.n > 0 THEN 1 ELSE IF v.n < 0 THEN -1 ELSE 0
      [] OTHER -> 0

Neg(v) ==
    CASE v.t = "Infinity" -> NegInfinity
      [] v.t = "-Infinity" -> Infinity
      [] v.t = "num" -> Frac(-v.n, v.d)
      [] OTHER -> v

\* JavaScript evaluates the operands of an operator, and the arguments of a
\* call, once, before the operator is applied: each operation below binds
\* its operands' values (a \in {x}) and then applies the operator to them.

AddNumbers(a, b) ==
    CASE a.t = "NaN" \/ b.t = "NaN" -> NaN
      [] IsFin(a) /\ IsFin(b) -> Frac(a.n * b.d + b.n * a.d, a.d * b.d)
      [] IsFin(a) -> b
      [] IsFin(b) -> a
      [] OTHER -> IF a.t = b.t THEN a ELSE NaN
AddValues(x, y) == AddNumbers(ToNumber(x), ToNumber(y))
SubValues(x, y) == AddNumbers(ToNumber(x), Neg(ToNumber(y)))

\* a + b
JsAdd(x, y) == CHOOSE r \in {AddValues(a, b) : a \in {x}, b \in {y}} : TRUE

\* a - b
JsSub(x, y) == CHOOSE r \in {SubValues(a, b) : a \in {x}, b \in {y}} : TRUE

SquareNumber(a) ==
    CASE a.t = "NaN" -> NaN
      [] IsFin(a) -> Frac(a.n * a.n, a.d * a.d)
      [] OTHER -> Infinity
SquareValue(x) == SquareNumber(ToNumber(x))

\* Math.pow(a, 2)
JsPow2(x) == CHOOSE r \in {SquareValue(a) : a \in {x}} : TRUE

\* The exact integer root; the inputs of the model are chosen so that every
\* finite squared distance is a perfect square.
ISqrt(n) == CHOOSE r \in 0..n : r * r = n

RootNumber(a) ==
    CASE a.t = "NaN" -> NaN
      [] a.t = "Infinity" -> Infinity
      [] a.t = "-Infinity" -> NaN
      [] OTHER -> IF a.n < 0 THEN NaN ELSE Frac(ISqrt(a.n), ISqrt(a.d))
RootValue(x) == RootNumber(ToNumber(x))

\* Math.sqrt(a)
JsSqrt(x) == CHOOSE r \in {RootValue(a) : a \in {x}} : TRUE

\* a < b on numbers that are not NaN
Less(a, b) ==
    CASE a.t = "-Infinity" -> b.t # "-Infinity"
      [] a.t = "Infinity" -> FALSE
      [] b.t = "Infinity" -> TRUE
      [] b.t = "-Infinity" -> FALSE
      [] OTHER -> a.n * b.d < b.n * a.d

MinNumbers(a, b) ==
    IF a.t = "NaN" \/ b.t = "NaN" THEN NaN
    ELSE IF Less(b, a) THEN b ELSE a
MinValues(x, y) == MinNumbers(ToNumber(x), ToNumber(y))

\* Math.min(a, b): NaN if either is NaN
JsMin(x, y) == CHOOSE r \in {MinValues(a, b) : a \in {x}, b \in {y}} : TRUE

DivNumbers(a, b) ==
    CASE a.t = "NaN" \/ b.t = "NaN" -> NaN
      [] IsFin(a) /\ IsFin(b) ->
            IF b.n = 0
            THEN (IF a.n = 0 THEN NaN
                  ELSE IF a.n > 0 THEN Infinity ELSE NegInfinity)
            ELSE Frac(a.n * b.d, a.d * b.n)
      [] IsFin(a) -> Num(0)
      [] IsFin(b) -> IF Sign(a) * (IF b.n < 0 THEN -1 ELSE 1) > 0
                     THEN Infinity ELSE NegInfinity
      [] OTHER -> NaN
DivValues(x, y) == DivNumbers(ToNumber(x), ToNumber(y))

\* a / b
JsDiv(x, y) == CHOOSE r \in {DivValues(a, b) : a \in {x}, b \in {y}} : TRUE

(***************************************************************************)
(* Geometries.  A geometry is its type and its parts, each part a sequence *)
(* of (x, y) points; coordinates() nests them as GeoJSON does.             *)
(***************************************************************************)
\* The corners of a 3 x 4 rectangle: every distance is 0, 3, 4 or 5.
Points == {<<0, 0>>, <<3, 0>>, <<0, 4>>, <<3, 4>>}

SeqsUpTo(S, n) == UNION {[1..k -> S] : k \in 0..n}

\* The lines a MultiLineString of the model is made of.
PartLines == {<<>>, <<<<0, 0>>>>, <<<<3, 0>>, <<3, 4>>>>}

LineStrings ==
    {[type |-> "LineString", parts |-> <<s>>] : s \in SeqsUpTo(Points, MaxPts)}
MultiLineStrings ==
    {[type |-> "MultiLineString", parts |-> ps] : ps \in SeqsUpTo(PartLines, MaxLines)}
OtherGeometries ==
    {[type |-> "Point", parts |-> <<<<<<3, 4>>>>>>],
     [type |-> "Polygon", parts |-> <<<<<<0, 0>>, <<3, 0>>, <<3, 4>>, <<0, 0>>>>>>]}
Geometries == LineStrings \cup MultiLineStrings \cup OtherGeometries

TimeIntervals == {-1, 0, 2, 4}

Pt(p)       == Arr(<<Num(p[1]), Num(p[2])>>)
PtList(s)   == Arr([k \in 1..Len(s) |-> Pt(s[k])])

\* geom.coordinates(): a point is [x, y], a line string a list of points, a
\* multi line string or polygon a list of such lists.
Coordinates(g) ==
    CASE g.type = "Point" -> Pt(g.parts[1][1])
      [] g.type = "LineString" -> PtList(g.parts[1])
      [] OTHER -> Arr([k \in 1..Len(g.parts) |-> PtList(g.parts[k])])

\* The points of a geometry, in order.
RECURSIVE Concat(_)
Concat(ss) == IF ss = <<>> THEN <<>> ELSE Head(ss) \o Concat(Tail(ss))
PointsOf(g) == Concat(g.parts)

(***************************************************************************)
(* calculateMigrationRate (lines 66-120).                                  *)
(***************************************************************************)
LineTypes == {"MultiLineString", "LineString"}

\* Line 72 with && for || (mutant): returns early only if both are invalid.
InvalidGeometryAnd(geom1, geom2) ==
    ~(geom1.type \in LineTypes) /\ ~(geom2.type \in LineTypes)
\* Line 72: the guard of the early return.
InvalidGeometry(geom1, geom2) ==
    ~(geom1.type \in LineTypes) \/ ~(geom2.type \in LineTypes)

GeometryMessage == "Input geometries must be LineString or MultiLineString"

\* Lines 84-92: flatten(arr) pushes every element that is not an array and
\* recurses into every element that is one.
RECURSIVE Flatten(_)
Flatten(arr) ==
    IF arr = <<>> THEN <<>>
    ELSE (IF IsArray(Head(arr)) THEN Flatten(Head(arr).elems) ELSE <<Head(arr)>>)
         \o Flatten(Tail(arr))

\* Lines 82-95.
FlattenCoords(coords) == CHOOSE r \in {Flatten(a) : a \in {coords.elems}} : TRUE

\* Line 108.
Dist(point1, point2) ==
    JsSqrt(JsAdd(JsPow2(JsSub(Index(point2, 0), Index(point1, 0))),
                 JsPow2(JsSub(Index(point2, 1), Index(point1, 1)))))

\* Lines 105-110: the inner loop, from minDistance = Infinity.
RECURSIVE MinFrom(_, _, _)
MinFrom(minDistance, point1, c2) ==
    IF c2 = <<>> THEN minDistance
    ELSE MinFrom(JsMin(minDistance, Dist(point1, Head(c2))), point1, Tail(c2))

MinDistance(point1, c2) == MinFrom(Infinity, point1, c2)

\* Lines 102-112: the outer loop.
NearestDistances(c1, c2) == [k \in 1..Len(c1) |-> MinDistance(c1[k], c2)]
Distances(c1, c2) == CHOOSE r \in {NearestDistances(a, b) : a \in {c1}, b \in {c2}} : TRUE

\* Line 115: distances.reduce(a + b, 0)
RECURSIVE SumFrom(_, _)
SumFrom(acc, ds) ==
    IF ds = <<>> THEN acc ELSE SumFrom(JsAdd(acc, Head(ds)), Tail(ds))

\* Line 115.
SumOverLength(ds) == JsDiv(SumFrom(Num(0), ds), Num(Len(ds)))
AverageDistance(ds) == CHOOSE r \in {SumOverLength(a) : a \in {ds}} : TRUE

\* Line 118.
MigrationRate(averageDistance, t) == JsDiv(averageDistance, Num(t))

\* The whole call, as main uses it.
CalculateMigrationRate(c1, c2, t) ==
    IF InvalidGeometry(c1, c2) THEN Num(0)
    ELSE MigrationRate(
             AverageDistance(Distances(FlattenCoords(Coordinates(c1)),
                                       FlattenCoords(Coordinates(c2)))), t)

\* ---- one call, step by step ----
\* The arguments of one call; main and extractCenterline are at rest.
EstInit ==
    /\ pc = "call"
    /\ centerline1 \in Geometries
    /\ centerline2 \in Geometries
    /\ timeInterval \in TimeIntervals
    /\ coords1 = <<>>
    /\ coords2 = <<>>
    /\ distances = <<>>
    /\ outcome = "pending"
    /\ result = Undefined
    /\ console = <<>>
    /\ mpc = "idle"
    /\ start_year = 0 /\ end_year = 0 /\ time_interval = 1
    /\ year = 0
    /\ years = <<>> /\ centerlines = <<>>
    /\ migrationRates = <<>> /\ migrationRateData = <<>>
    /\ spc = "idle"
    /\ image = <<>> /\ opened = <<>> /\ distance = <<>> /\ centerline = <<>>

\* Lines 68-75.
CheckGeometry ==
    /\ pc = "call"
    /\ \/ /\ InvalidGeometry(centerline1, centerline2)
          /\ console' = Append(console, GeometryMessage)
          /\ result' = Num(0)
          /\ outcome' = "returned"
          /\ pc' = "done"
       \/ /\ ~InvalidGeometry(centerline1, centerline2)
          /\ pc' = "flatten"
          /\ UNCHANGED <<console, result, outcome>>
    /\ UNCHANGED <<centerline1, centerline2, timeInterval, coords1, coords2, distances>>
    /\ UNCHANGED <<mainVars, skelVars>>

\* Lines 78-98.
FlattenBoth ==
    /\ pc = "flatten"
    /\ coords1' = FlattenCoords(Coordinates(centerline1))
    /\ coords2' = FlattenCoords(Coordinates(centerline2))
    /\ pc' = "loop"
    /\ UNCHANGED <<centerline1, centerline2, timeInterval, distances, outcome,
                   result, console, mainVars, skelVars>>

\* Lines 103-112: one iteration of the outer loop (i = distances.length).
NearestPoint ==
    /\ pc = "loop"
    /\ Len(distances) < Len(coords1)
    /\ distances' = Append(distances, MinDistance(coords1[Len(distances) + 1], coords2))
    /\ UNCHANGED <<pc, centerline1, centerline2, timeInterval, coords1, coords2,
                   outcome, result, console, mainVars, skelVars>>

\* Lines 115-119.
ReturnRate ==
    /\ pc = "loop"
    /\ Len(distances) = Len(coords1)
    /\ result' = MigrationRate(AverageDistance(distances), timeInterval)
    /\ outcome' = "returned"
    /\ pc' = "done"
    /\ UNCHANGED <<centerline1, centerline2, timeInterval, coords1, coords2,
                   distances, console, mainVars, skelVars>>

EstNext == CheckGeometry \/ FlattenBoth \/ NearestPoint \/ ReturnRate

SpecEstimate == EstInit /\ [][EstNext]_vars

(***************************************************************************)
(* Claims about calculateMigrationRate, checked under SpecEstimate.        *)
(***************************************************************************)
IsLineLike(g) == g.type = "LineString" \/ g.type = "MultiLineString"
BothLineLike  == IsLineLike(centerline1) /\ IsLineLike(centerline2)

\* The planar Euclidean distance of two (x, y) points.
Euclid(p, q) ==
    ISqrt((q[1] - p[1]) * (q[1] - p[1]) + (q[2] - p[2]) * (q[2] - p[2]))

\* The least distance from p to a point of the non-empty sequence qs.
NearestDistance(p, qs) ==
    LET ds == {Euclid(p, qs[k]) : k \in 1..Len(qs)}
    IN  CHOOSE m \in ds : \A e \in ds : m <= e

RECURSIVE SumNearest(_, _)
SumNearest(ps, qs) ==
    IF ps = <<>> THEN 0 ELSE NearestDistance(Head(ps), qs) + SumNearest(Tail(ps), qs)

\* The mean nearest-neighbour distance of ps to qs, over t.
ExpectedRate(ps, qs, t) == Frac(SumNearest(ps, qs), Len(ps) * t)

IsFiniteRate(v) == v.t = "num" /\ v.n >= 0

\* Whether a returned value carries a degenerate flag that is set.
DegenerateFlag(v) == v.t = "estimate" /\ v.degenerate

\* C1: for non-empty line geometries and timeInterval > 0 the returned rate is
\* the mean over the earlier points of the distance to the nearest later
\* point, divided by timeInterval; earlier [(0,0),(3,0)], later [(0,4),(3,4)],
\* timeInterval 4 gives 1 (the 3-4-5 analogue of the stated scenario).
C1_RateIsMeanNearestDistance ==
    (/\ pc = "done"
     /\ BothLineLike
     /\ PointsOf(centerline1) # <<>>
     /\ PointsOf(centerline2) # <<>>
     /\ timeInterval > 0)
    => /\ outcome = "returned"
       /\ result = ExpectedRate(PointsOf(centerline1), PointsOf(centerline2), timeInterval)
       /\ (/\ PointsOf(centerline1) = <<<<0, 0>>, <<3, 0>>>>
           /\ PointsOf(centerline2) = <<<<0, 4>>, <<3, 4>>>>
           /\ timeInterval = 4) => result = Num(1)

\* C2 (as stated): a call with a geometry that is not line-like is rejected
\* as InvalidGeometryKind and never returns a zero rate as an ordinary result.
C2_InvalidGeometryRejected ==
    (pc = "done" /\ ~BothLineLike)
    => /\ outcome = "InvalidGeometryKind"
       /\ ~(outcome = "returned" /\ result = Num(0))

\* C2 (amended): a call with a geometry that is not line-like is not
\* rejected: it logs the message once and returns 0 as an ordinary result.
C2_InvalidGeometryReturnsZero ==
    (pc = "done" /\ ~BothLineLike)
    => /\ outcome = "returned"
       /\ result = Num(0)
       /\ console = <<GeometryMessage>>

C2_Witness ==
    /\ pc = "done"
    /\ centerline1.type = "Polygon"
    /\ centerline2.type = "LineString"
    /\ PointsOf(centerline2) # <<>>
    /\ outcome = "returned"
    /\ result = Num(0)

\* C3: a call with timeInterval <= 0 is rejected with NonPositiveInterval and
\* never returns an infinite or NaN rate.
C3_NonPositiveIntervalRejected ==
    (pc = "done" /\ BothLineLike /\ timeInterval <= 0)
    => /\ outcome = "NonPositiveInterval"
       /\ ~(outcome = "returned" /\ result.t \in {"NaN", "Infinity", "-Infinity"})

\* C4: a call with timeInterval > 0 and an empty earlier or later polyline
\* set returns rate 0 with the degenerate flag set, and raises no error.
C4_EmptySetIsDegenerateZero ==
    (/\ pc = "done"
     /\ BothLineLike
     /\ timeInterval > 0
     /\ (PointsOf(centerline1) = <<>> \/ PointsOf(centerline2) = <<>>))
    => /\ outcome = "returned"
       /\ (result = Num(0) \/ (DegenerateFlag(result) /\ result.rate = Num(0)))
       /\ DegenerateFlag(result)

\* C6: identical non-empty earlier and later centerlines give rate 0 for any
\* timeInterval > 0.
C6_IdenticalCenterlinesRateZero ==
    (/\ pc = "done"
     /\ BothLineLike
     /\ centerline1 = centerline2
     /\ PointsOf(centerline1) # <<>>
     /\ timeInterval > 0)
    => (outcome = "returned" /\ result = Num(0))

\* C9: flattenCoords yields exactly the original (x, y) points, each kept as
\* a two-coordinate pair, in order, nothing added or lost.
C9_FlattenKeepsPoints ==
    (pc \in {"loop", "done"} /\ BothLineLike)
    => /\ Len(coords1) = Len(PointsOf(centerline1))
       /\ \A k \in 1..Len(coords1) : coords1[k] = Pt(PointsOf(centerline1)[k])
       /\ Len(coords2) = Len(PointsOf(centerline2))
       /\ \A k \in 1..Len(coords2) : coords2[k] = Pt(PointsOf(centerline2)[k])

(***************************************************************************)
(* main (lines 126-241).  The imagery, the exports and the map are         *)
(* external; the centerline of an epoch is whatever geometry the           *)
(* vectorisation hands back.                                               *)
(***************************************************************************)
\* The list of years holds at most this many entries when time_interval > 0.
MaxEpochs == MaxYear + 1

\* The centerlines an epoch may yield.
EpochGeometries ==
    {[type |-> "LineString", parts |-> <<<<>>>>],
     [type |-> "LineString", parts |-> <<<<<<0, 0>>>>>>],
     [type |-> "LineString", parts |-> <<<<<<0, 0>>, <<3, 0>>>>>>],
     [type |-> "LineString", parts |-> <<<<<<0, 4>>, <<3, 4>>>>>>],
     [type |-> "MultiLineString", parts |-> <<<<<<0, 0>>>>, <<<<3, 4>>>>>>],
     [type |-> "Polygon", parts |-> <<<<<<0, 0>>, <<3, 0>>, <<3, 4>>, <<0, 0>>>>>>]}

\* years.slice(0, -1)
DropLast(s) == IF s = <<>> THEN <<>> ELSE SubSeq(s, 1, Len(s) - 1)

\* Lines 190-194 with Year2 (mutant) taken from the same index as Year1.
ExportRowSameIndex(ys, rates, index) ==
    [Year1 |-> ys[index + 1], Year2 |-> ys[index + 1], MigrationRate |-> rates[index + 1]]
\* Lines 190-194: the row of the 0-based index.
ExportRow(ys, rates, index) ==
    [Year1 |-> ys[index + 1], Year2 |-> ys[index + 2], MigrationRate |-> rates[index + 1]]

\* Lines 189-195.
ExportRows(ys, rates) ==
    [k \in 1..Len(DropLast(ys)) |-> ExportRow(ys, rates, k - 1)]

MainInit ==
    /\ mpc = "years_test"
    /\ start_year \in 0..MaxYear
    /\ end_year \in 0..MaxYear
    /\ time_interval \in 0..MaxInterval
    /\ year = start_year
    /\ years = <<>>
    /\ centerlines = <<>>
    /\ migrationRates = <<>>
    /\ migrationRateData = <<>>
    /\ pc = "idle"
    /\ centerline1 = <<>> /\ centerline2 = <<>> /\ timeInterval = 0
    /\ coords1 = <<>> /\ coords2 = <<>> /\ distances = <<>>
    /\ outcome = "pending" /\ result = Undefined /\ console = <<>>
    /\ spc = "idle"
    /\ image = <<>> /\ opened = <<>> /\ distance = <<>> /\ centerline = <<>>

\* Line 129: the loop condition year <= end_year.
YearsTest ==
    /\ mpc = "years_test"
    /\ mpc' = IF year <= end_year THEN "years_push" ELSE "centerlines"
    /\ UNCHANGED <<start_year, end_year, time_interval, year, years, centerlines,
                   migrationRates, migrationRateData, estVars, skelVars>>

\* Lines 129-130: years.push(year); year += time_interval.  The program's
\* list grows without limit when time_interval is 0; the model records its
\* first MaxEpochs entries.
YearsPush ==
    /\ mpc = "years_push"
    /\ years' = IF Len(years) < MaxEpochs THEN Append(years, year) ELSE years
    /\ year' = year + time_interval
    /\ mpc' = "years_test"
    /\ UNCHANGED <<start_year, end_year, time_interval, centerlines,
                   migrationRates, migrationRateData, estVars, skelVars>>

\* Lines 151-176: one epoch's centerline, or the end of the loop.
EpochCenterline ==
    /\ mpc = "centerlines"
    /\ \/ /\ Len(centerlines) < Len(years)
          /\ \E g \in EpochGeometries : centerlines' = Append(centerlines, g)
          /\ mpc' = mpc
       \/ /\ ~(Len(centerlines) < Len(years))
          /\ mpc' = "rates"
          /\ UNCHANGED centerlines
    /\ UNCHANGED <<start_year, end_year, time_interval, year, years,
                   migrationRates, migrationRateData, estVars, skelVars>>

\* Lines 182-186: one pair's rate, or the end of the loop.
PairRate ==
    /\ mpc = "rates"
    /\ \/ /\ Len(migrationRates) < Len(centerlines) - 1
          /\ migrationRates' =
                Append(migrationRates,
                       CalculateMigrationRate(centerlines[Len(migrationRates) + 1],
                                              centerlines[Len(migrationRates) + 2],
                                              time_interval))
          /\ mpc' = mpc
       \/ /\ ~(Len(migrationRates) < Len(centerlines) - 1)
          /\ mpc' = "export"
          /\ UNCHANGED migrationRates
    /\ UNCHANGED <<start_year, end_year, time_interval, year, years, centerlines,
                   migrationRateData, estVars, skelVars>>

\* Lines 189-205.
ExportRates ==
    /\ mpc = "export"
    /\ migrationRateData' = ExportRows(years, migrationRates)
    /\ mpc' = "done"
    /\ UNCHANGED <<start_year, end_year, time_interval, year, years, centerlines,
                   migrationRates, estVars, skelVars>>

MainNext == YearsTest \/ YearsPush \/ EpochCenterline \/ PairRate \/ ExportRates

SpecMain == MainInit /\ [][MainNext]_vars

\* main runs on one thread that always takes its next step.
FairSpecMain == SpecMain /\ WF_vars(MainNext)

(***************************************************************************)
(* Claims about main, checked under SpecMain and FairSpecMain.             *)
(***************************************************************************)
\* C5: n >= 1 epochs give exactly n - 1 estimates in epoch order; the i-th is
\* computed from the centerlines of epochs i and i+1 and labelled Year1 =
\* years[i], Year2 = years[i+1], the i-th and (i+1)-th configured years.
C5_OneEstimatePerConsecutivePair ==
    (mpc = "done" /\ Len(years) >= 1)
    => /\ Len(centerlines) = Len(years)
       /\ Len(migrationRateData) = Len(years) - 1
       /\ \A k \in 1..(Len(years) - 1) :
            /\ migrationRateData[k].Year1 = years[k]
            /\ migrationRateData[k].Year2 = years[k + 1]
            /\ migrationRateData[k].Year1 = start_year + (k - 1) * time_interval
            /\ migrationRateData[k].Year2 = start_year + k * time_interval
            /\ migrationRateData[k].MigrationRate =
                  CalculateMigrationRate(centerlines[k], centerlines[k + 1], time_interval)

\* Four epochs have produced three labelled estimates.
C5_Witness ==
    /\ mpc = "done"
    /\ Len(years) = 4
    /\ Len(migrationRateData) = 3
    /\ migrationRateData[3].Year1 = 2
    /\ migrationRateData[3].Year2 = 3

\* C7: every rate recorded in migrationRates is a finite, non-negative number.
C7_RatesFiniteNonNegative ==
    \A k \in 1..Len(migrationRates) : IsFiniteRate(migrationRates[k])

\* C10: for start_year <= end_year and any time_interval, main eventually
\* finishes the years list, the centerline loop and the estimation loop.
C10_MainTerminates == (start_year <= end_year) ~> (mpc = "done")

(***************************************************************************)
(* extractCenterline (lines 38-57) on a Width x Height raster.  The raster *)
(* operations are the platform's: erode and dilate are the minimum and the *)
(* maximum over the neighbourhood, distance() is the distance transform,   *)
(* focal_max the maximum over the window centred on the pixel.  Pixels     *)
(* outside the raster are masked and take no part.  Distances are squared  *)
(* (the comparison of line 47 is the same on squares).                     *)
(***************************************************************************)
ErodeRadius  == 2
DilateRadius == 2
FocalSize    == 5

Pixels == (1..Width) \X (1..Height)
Images == [Pixels -> {0, 1}]

SetMax(S) == CHOOSE m \in S : \A e \in S : e <= m
SetMin(S) == CHOOSE m \in S : \A e \in S : m <= e

\* The square neighbourhood of half-width r, the pixel itself included.
Window(p, r) ==
    {q \in Pixels : Abs(q[1] - p[1]) <= r /\ Abs(q[2] - p[2]) <= r}

\* image.morphology('erode', r) and image.morphology('dilate', r)
Erode(img, r)  == [p \in Pixels |-> SetMin({img[q] : q \in Window(p, r)})]
Dilate(img, r) == [p \in Pixels |-> SetMax({img[q] : q \in Window(p, r)})]

SquaredDistance(p, q) ==
    (q[1] - p[1]) * (q[1] - p[1]) + (q[2] - p[2]) * (q[2] - p[2])

\* Farther than any two pixels of the raster are apart.
FarDistance == (Width + Height) * (Width + Height)

\* image.distance(): 0 on the background, else the distance to the nearest
\* background pixel.
DistanceTransform(img) ==
    [p \in Pixels |->
        IF img[p] = 0 THEN 0
        ELSE LET bg == {q \in Pixels : img[q] = 0}
             IN  IF bg = {} THEN FarDistance
                 ELSE SetMin({SquaredDistance(p, q) : q \in bg})]

\* distance.focal_max({size: size})
FocalMax(d, size) ==
    [p \in Pixels |-> SetMax({d[q] : q \in Window(p, size \div 2)})]

\* Line 47: distance.gt(distance.focal_max({size: 5})).selfMask()
MedialAxis(d) ==
    [p \in Pixels |-> IF d[p] > FocalMax(d, FocalSize)[p] THEN 1 ELSE 0]

SkelInit ==
    /\ spc = "open"
    /\ image \in Images
    /\ opened = <<>>
    /\ distance = <<>>
    /\ centerline = <<>>
    /\ pc = "idle"
    /\ centerline1 = <<>> /\ centerline2 = <<>> /\ timeInterval = 0
    /\ coords1 = <<>> /\ coords2 = <<>> /\ distances = <<>>
    /\ outcome = "pending" /\ result = Undefined /\ console = <<>>
    /\ mpc = "idle"
    /\ start_year = 0 /\ end_year = 0 /\ time_interval = 1
    /\ year = 0
    /\ years = <<>> /\ centerlines = <<>>
    /\ migrationRates = <<>> /\ migrationRateData = <<>>

\* Lines 40-41.
OpenImage ==
    /\ spc = "open"
    /\ opened' = Dilate(Erode(image, ErodeRadius), DilateRadius)
    /\ spc' = "distance"
    /\ UNCHANGED <<image, distance, centerline, estVars, mainVars>>

\* Line 44.
ComputeDistance ==
    /\ spc = "distance"
    /\ distance' = DistanceTransform(opened)
    /\ spc' = "medial"
    /\ UNCHANGED <<image, opened, centerline, estVars, mainVars>>

\* Line 47.
ComputeMedialAxis ==
    /\ spc = "medial"
    /\ centerline' = MedialAxis(distance)
    /\ spc' = "done"
    /\ UNCHANGED <<image, opened, distance, estVars, mainVars>>

SkelNext == OpenImage \/ ComputeDistance \/ ComputeMedialAxis

SpecSkeleton == SkelInit /\ [][SkelNext]_vars

\* C8: a pixel of the opened mask whose distance value equals the maximum of
\* the distance transform over the window centred on it is a skeleton pixel
\* (ties included), so a non-empty opened mask has a skeleton pixel.
C8_TiesAreSkeleton ==
    (spc = "done")
    => /\ \A p \in Pixels :
            (/\ opened[p] = 1
             /\ distance[p] = SetMax({distance[q] : q \in Window(p, FocalSize \div 2)}))
            => centerline[p] = 1
       /\ (\E p \in Pixels : opened[p] = 1) => (\E p \in Pixels : centerline[p] = 1)

====
